---- MODULE Spec2Model ----
(***************************************************************************)
(* huginn-bundler: the version model (utils.ts), the artifact locator and  *)
(* the workflows of index.ts: Build, Create Release, Delete Release and    *)
(* Delete Build, against BUILDS_PATH, the remote releases and the gist.    *)
(*                                                                         *)
(* Text is a sequence of one-character strings, so that split, parseInt,   *)
(* endsWith, includes and template formatting are computed as the code     *)
(* computes them.  A JavaScript number-or-undefined is a record            *)
(* [t |-> "number" | "NaN" | "undefined", v |-> Int].                      *)
(***************************************************************************)
EXTENDS Integers, Sequences, FiniteSets, TLC

VARIABLES
    fn,         \* the utility function under call ("none" in the workflow)
    args,       \* its arguments
    ret,        \* its outcome: pending, returned (value) or thrown (error)
    builds,     \* BUILDS_PATH: folder name -> the set of file names in it
    cargoToml,  \* the version field of Cargo.toml
    packageJson,\* the version field of package.json
    pc,         \* position of the running request
    req,        \* the running request (intent and its prompts' answers)
    resolved,   \* what getPatchedVersion gave the running build
    served,     \* number of requests started so far
    releases,   \* the releases of the remote repository: id, tag and assets
    tags,       \* the tags of the remote repository
    gist,       \* the file huginn-version.json of the gist
    before,     \* builds, releases, tags and gist when the running request started
    lastPublished \* the last Create Release request that ran to its end

utilVars == <<fn, args, ret>>
remoteVars == <<releases, tags, gist>>
flowVars == <<builds, cargoToml, packageJson, pc, req, resolved, served,
              releases, tags, gist, before, lastPublished>>
vars == <<fn, args, ret, builds, cargoToml, packageJson, pc, req, resolved, served,
          releases, tags, gist, before, lastPublished>>

----------------------------------------------------------------------------
(* Bounds *)

\* components of the versions and fragments given to getPatchedVersion: 0..MaxNum
MaxNum == 1
\* length of the list of existing versions given to getPatchedVersion
MaxHist == 2
\* components of the versions formatted and parsed back: 0..MaxPart
MaxPart == 10
\* number of entries of the directory getBuildFiles searches
MaxEntries == 3
\* number of folders in the listing getVersions sorts
MaxListed == 3
\* major and minor of the fragments typed at the Build prompt: 0..MaxBuildNum
MaxBuildNum == 1
\* number of requests (runs of the program) in a behaviour
MaxRequests == 2

----------------------------------------------------------------------------
(* JavaScript values *)

Number(n) == [t |-> "number", v |-> n]
NaN == [t |-> "NaN", v |-> 0]
undefined == [t |-> "undefined", v |-> 0]

IsNumber(x) == x.t = "number"

\* x < y on numbers; every comparison with NaN or undefined is false
Less(x, y) == IsNumber(x) /\ IsNumber(y) /\ x.v < y.v

\* x === y: NaN is not equal to itself
StrictEq(x, y) ==
    \/ IsNumber(x) /\ IsNumber(y) /\ x.v = y.v
    \/ x.t = "undefined" /\ y.t = "undefined"

\* x + 1: undefined + 1 and NaN + 1 are NaN
PlusOne(x) == IF IsNumber(x) THEN Number(x.v + 1) ELSE NaN

----------------------------------------------------------------------------
(* Text *)

DigitChars == <<"0", "1", "2", "3", "4", "5", "6", "7", "8", "9">>

IsDigit(c) == \E i \in 1..10 : DigitChars[i] = c

DigitVal(c) == (CHOOSE i \in 1..10 : DigitChars[i] = c) - 1

RECURSIVE NatToStr(_)
NatToStr(n) ==
    IF n < 10 THEN <<DigitChars[n + 1]>>
    ELSE NatToStr(n \div 10) \o <<DigitChars[(n % 10) + 1]>>

\* `${x}` of a template literal
ToStr(x) ==
    CASE x.t = "NaN" -> <<"N", "a", "N">>
      [] x.t = "undefined" -> <<"u", "n", "d", "e", "f", "i", "n", "e", "d">>
      [] x.v < 0 -> <<"-">> \o NatToStr(-x.v)
      [] OTHER -> NatToStr(x.v)

\* s.split(sep) for a one-character separator: never empty, "" gives [""]
RECURSIVE Split(_, _)
Split(s, sep) ==
    IF \A i \in 1..Len(s) : s[i] # sep THEN <<s>>
    ELSE LET k == CHOOSE i \in 1..Len(s) :
                      s[i] = sep /\ \A j \in 1..(i - 1) : s[j] # sep
         IN <<SubSeq(s, 1, k - 1)>> \o Split(SubSeq(s, k + 1, Len(s)), sep)

\* the longest prefix of s made of digits
RECURSIVE DigitPrefix(_)
DigitPrefix(s) ==
    IF s = <<>> \/ ~IsDigit(Head(s)) THEN <<>>
    ELSE <<Head(s)>> \o DigitPrefix(Tail(s))

RECURSIVE DigitsVal(_)
DigitsVal(s) ==
    IF s = <<>> THEN 0
    ELSE 10 * DigitsVal(SubSeq(s, 1, Len(s) - 1)) + DigitVal(s[Len(s)])

\* parseInt(s), radix 10: an optional sign, then the leading digits; NaN when
\* there is none.  (The alphabet of the model has no white space and no 0x.)
parseInt(s) ==
    LET neg  == s # <<>> /\ Head(s) = "-"
        body == IF s # <<>> /\ Head(s) \in {"-", "+"} THEN Tail(s) ELSE s
        ds   == DigitPrefix(body)
    IN IF ds = <<>> THEN NaN
       ELSE Number(IF neg THEN -DigitsVal(ds) ELSE DigitsVal(ds))

\* s.endsWith(t)
EndsWith(s, t) ==
    Len(t) <= Len(s) /\ SubSeq(s, Len(s) - Len(t) + 1, Len(s)) = t

\* s.includes(t)
Includes(s, t) ==
    \E i \in 1..(Len(s) - Len(t) + 1) : SubSeq(s, i, i + Len(t) - 1) = t

----------------------------------------------------------------------------
(* Outcomes of a call *)

Pending == [status |-> "pending"]
Returned(x) == [status |-> "returned", value |-> x]
Thrown(e) == [status |-> "thrown", error |-> e]

ErrInvalid == "Version string was invalid"
ErrPatch == "Input version cannot have a patch number"
ErrTooLow == "Input version cannot be less than latest available version"
ErrNotFound == ".zip or .sig file not found"

----------------------------------------------------------------------------
(* utils.ts: the version model *)

\* stringToVersion with the patch tested for truthiness after parsing
\* (parseInt(patch) || undefined), which loses patch 0
stringToVersionFalsyPatch(version) ==
    LET versionSplit == Split(Split(version, "_")[1], ".")
        parsed == IF Len(versionSplit) >= 3 THEN parseInt(versionSplit[3]) ELSE NaN
    IN IF Len(versionSplit) < 2 THEN Thrown(ErrInvalid)
       ELSE Returned([major |-> parseInt(versionSplit[1]),
                      minor |-> parseInt(versionSplit[2]),
                      patch |-> IF IsNumber(parsed) /\ parsed.v # 0
                                THEN parsed ELSE undefined])

stringToVersion(version) ==
    LET wholeSplit == Split(version, "_")
        versionSplit == Split(wholeSplit[1], ".")
        \* versionSplit?.[2] ?? undefined: the third segment when there is one
        hasPatch == Len(versionSplit) >= 3
    IN IF Len(versionSplit) < 2 THEN Thrown(ErrInvalid)
       ELSE Returned([major |-> parseInt(versionSplit[1]),
                      minor |-> parseInt(versionSplit[2]),
                      \* patch ? parseInt(patch) : undefined: "" is falsy
                      patch |-> IF hasPatch /\ versionSplit[3] # <<>>
                                THEN parseInt(versionSplit[3]) ELSE undefined])

versionToString(version) ==
    ToStr(version.major) \o <<".">> \o ToStr(version.minor) \o <<".">>
        \o ToStr(version.patch)

DEBUG == "DEBUG"
RELEASE == "RELEASE"
BuildType == {RELEASE, DEBUG}

\* latestOf reading the last element instead of the first
latestOfLast(orderedVersions) ==
    IF orderedVersions = <<>>
    THEN [major |-> Number(0), minor |-> Number(0), patch |-> Number(0)]
    ELSE orderedVersions[Len(orderedVersions)].version

\* latestOf with a default below every version, so that 0.0 starts at patch 0
latestOfBelowZero(orderedVersions) ==
    IF orderedVersions = <<>>
    THEN [major |-> Number(0), minor |-> Number(0), patch |-> Number(-1)]
    ELSE orderedVersions[1].version

\* orderedVersions?.[0]?.version ?? { major: 0, minor: 0, patch: 0 }
latestOf(orderedVersions) ==
    IF orderedVersions = <<>>
    THEN [major |-> Number(0), minor |-> Number(0), patch |-> Number(0)]
    ELSE orderedVersions[1].version

\* tooLow comparing the major numbers only
tooLowMajorOnly(versionToPatch, latestVersion) ==
    Less(versionToPatch.major, latestVersion.major)

\* the too-low test of getPatchedVersion
tooLow(versionToPatch, latestVersion) ==
    \/ Less(versionToPatch.major, latestVersion.major)
    \/ Less(versionToPatch.minor, latestVersion.minor)

\* patchFor without the increment
patchForKeep(versionToPatch, latestVersion) ==
    IF /\ StrictEq(versionToPatch.major, latestVersion.major)
       /\ StrictEq(versionToPatch.minor, latestVersion.minor)
    THEN latestVersion.patch
    ELSE Number(0)

\* the patch getPatchedVersion assigns
patchFor(versionToPatch, latestVersion) ==
    IF /\ StrictEq(versionToPatch.major, latestVersion.major)
       /\ StrictEq(versionToPatch.minor, latestVersion.minor)
    THEN PlusOne(latestVersion.patch)
    ELSE Number(0)

\* getPatchedVersion with the too-low test made before the patch test
getPatchedVersionTooLowFirst(version, orderedVersions) ==
    LET latestVersion == latestOf(orderedVersions)
        parsed == stringToVersion(version)
    IN IF parsed.status = "thrown" THEN parsed
       ELSE LET versionToPatch == parsed.value
            IN IF tooLow(versionToPatch, latestVersion) THEN Thrown(ErrTooLow)
               ELSE IF versionToPatch.patch.t # "undefined" THEN Thrown(ErrPatch)
               ELSE Returned(versionToString(
                        [versionToPatch EXCEPT
                            !.patch = patchFor(versionToPatch, latestVersion)]))

getPatchedVersion(version, orderedVersions) ==
    LET latestVersion == latestOf(orderedVersions)
        parsed == stringToVersion(version)
    IN IF parsed.status = "thrown" THEN parsed
       ELSE LET versionToPatch == parsed.value
            IN IF versionToPatch.patch.t # "undefined" THEN Thrown(ErrPatch)
               ELSE IF tooLow(versionToPatch, latestVersion) THEN Thrown(ErrTooLow)
               ELSE Returned(versionToString(
                        [versionToPatch EXCEPT
                            !.patch = patchFor(versionToPatch, latestVersion)]))

----------------------------------------------------------------------------
(* utils.ts: the artifact locator and the listing of versions *)

ExtZip == <<".", "z", "i", "p">>
ExtSig == <<".", "s", "i", "g">>

\* path.resolve(dir, name) for an absolute, normalised dir and an entry name
PathResolve(dir, name) == dir \o <<"/">> \o name

\* FirstMatch taking the last entry that matches
LastMatch(files, ext, version) ==
    IF \E i \in 1..Len(files) : EndsWith(files[i], ext) /\ Includes(files[i], version)
    THEN CHOOSE i \in 1..Len(files) :
             /\ EndsWith(files[i], ext) /\ Includes(files[i], version)
             /\ \A j \in (i + 1)..Len(files) :
                    ~(EndsWith(files[j], ext) /\ Includes(files[j], version))
    ELSE 0

\* files.find((x) => x.endsWith(ext) && x.includes(version)): the position of
\* the first entry of the listing that matches, 0 for undefined
FirstMatch(files, ext, version) ==
    IF \E i \in 1..Len(files) : EndsWith(files[i], ext) /\ Includes(files[i], version)
    THEN CHOOSE i \in 1..Len(files) :
             /\ EndsWith(files[i], ext) /\ Includes(files[i], version)
             /\ \A j \in 1..(i - 1) :
                    ~(EndsWith(files[j], ext) /\ Includes(files[j], version))
    ELSE 0

\* getBuildFiles matching on the extension alone
getBuildFilesAnyVersion(buildPath, files, version) ==
    LET z == FirstMatch(files, ExtZip, <<>>)
        g == FirstMatch(files, ExtSig, <<>>)
    IN IF z = 0 \/ g = 0 THEN Thrown(ErrNotFound)
       ELSE Returned([zipFile |-> [name |-> files[z],
                                   path |-> PathResolve(buildPath, files[z])],
                      sigFile |-> [name |-> files[g],
                                   path |-> PathResolve(buildPath, files[g])]])

\* files is what readdir(buildPath) gives
getBuildFiles(buildPath, files, version) ==
    LET z == FirstMatch(files, ExtZip, version)
        g == FirstMatch(files, ExtSig, version)
    IN IF z = 0 \/ g = 0 THEN Thrown(ErrNotFound)
       ELSE Returned([zipFile |-> [name |-> files[z],
                                   path |-> PathResolve(buildPath, files[z])],
                      sigFile |-> [name |-> files[g],
                                   path |-> PathResolve(buildPath, files[g])]])

SuffixDebug == <<"_", "d", "e", "b", "u", "g">>
SuffixRelease == <<"_", "r", "e", "l", "e", "a", "s", "e">>

getVersionSuffix(type) == IF type = DEBUG THEN SuffixDebug ELSE SuffixRelease

getFolderBuildType(folderName) ==
    IF EndsWith(folderName, SuffixDebug) THEN DEBUG
    ELSE IF EndsWith(folderName, SuffixRelease) THEN RELEASE
    ELSE DEBUG

\* the three numbers of a text major.minor.patch
SemverParts(text) ==
    LET segs == Split(text, ".")
    IN <<parseInt(segs[1]).v, parseInt(segs[2]).v, parseInt(segs[3]).v>>

\* rank of a character in a comparison of texts: "." is before the digits
CharRank(c) == IF IsDigit(c) THEN DigitVal(c) + 1 ELSE 0

\* semverOrder comparing the two texts character by character
RECURSIVE semverOrderText(_, _)
semverOrderText(a, b) ==
    IF a = <<>> /\ b = <<>> THEN 0
    ELSE IF a = <<>> THEN -1
    ELSE IF b = <<>> THEN 1
    ELSE IF CharRank(Head(a)) < CharRank(Head(b)) THEN -1
    ELSE IF CharRank(Head(a)) > CharRank(Head(b)) THEN 1
    ELSE semverOrderText(Tail(a), Tail(b))

\* semver.order(a, b) of Bun on two texts major.minor.patch: -1, 0 or 1 by
\* the numbers, major first
semverOrder(a, b) ==
    LET x == SemverParts(a)
        y == SemverParts(b)
    IN IF x[1] # y[1] THEN (IF x[1] < y[1] THEN -1 ELSE 1)
       ELSE IF x[2] # y[2] THEN (IF x[2] < y[2] THEN -1 ELSE 1)
       ELSE IF x[3] # y[3] THEN (IF x[3] < y[3] THEN -1 ELSE 1)
       ELSE 0

\* the comparator getVersions sorts the folder names with
folderOrder(v1, v2) == semverOrder(Split(v1, "_")[1], Split(v2, "_")[1])

\* x put into a sorted list, after the elements that do not come after it
RECURSIVE InsertSorted(_, _)
InsertSorted(sorted, x) ==
    IF sorted = <<>> THEN <<x>>
    ELSE IF folderOrder(sorted[Len(sorted)], x) <= 0 THEN Append(sorted, x)
    ELSE Append(InsertSorted(SubSeq(sorted, 1, Len(sorted) - 1), x),
                sorted[Len(sorted)])

\* Array.prototype.sort with folderOrder: ascending and stable
RECURSIVE SortFolders(_)
SortFolders(folders) ==
    IF folders = <<>> THEN <<>>
    ELSE InsertSorted(SortFolders(SubSeq(folders, 1, Len(folders) - 1)),
                      folders[Len(folders)])

Reverse(seq) == [i \in 1..Len(seq) |-> seq[Len(seq) + 1 - i]]

\* listing is what readdir(BUILDS_PATH) gives
getVersions(listing) ==
    LET folders == Reverse(SortFolders(listing))
    IN IF \E i \in 1..Len(folders) : stringToVersion(folders[i]).status = "thrown"
       THEN Thrown(ErrInvalid)
       ELSE Returned([i \in 1..Len(folders) |->
                [type |-> getFolderBuildType(folders[i]),
                 version |-> stringToVersion(folders[i]).value]])

----------------------------------------------------------------------------
(* The state of the workflow before any request *)

NoFiles == [d \in {} |-> {}]

\* the gist has no file huginn-version.json yet
NoGist == [version |-> <<>>, url |-> <<>>]

NoSnapshot == [builds |-> NoFiles, releases |-> {}, tags |-> {}, gist |-> NoGist]

NoneYet == [version |-> <<>>, type |-> "none"]

\* the remote repository and the gist before any release
RemoteInit ==
    /\ releases = {}
    /\ tags = {}
    /\ gist = NoGist
    /\ before = NoSnapshot
    /\ lastPublished = NoneYet

FlowInit ==
    /\ RemoteInit
    /\ builds = NoFiles
    /\ cargoToml = <<"0", ".", "0", ".", "0">>
    /\ packageJson = <<"0", ".", "0", ".", "0">>
    /\ pc = "idle"
    /\ req = [intent |-> "none"]
    /\ resolved = Pending
    /\ served = 0

----------------------------------------------------------------------------
(* getPatchedVersion applied to bounded inputs *)

Nums == 0..MaxNum

Frag2(a, b) == NatToStr(a) \o <<".">> \o NatToStr(b)

\* what may follow "major.minor" in the text typed at the prompt
FragTails == {<<>>, <<".">>, <<".", "0">>, <<".", "b">>}

OtherFragments ==
    {<<>>, <<"1">>, <<"b", ".", "1">>, <<"1", ".", "b">>,
     <<"1", ".", "0", "_", "d">>, <<"b", ".", "1", ".", "0">>,
     <<"1", "_", "1", ".", "0", ".", "0">>, <<"1", ".", "0", ".", "_", "d">>}

PatchFragments ==
    {Frag2(a, b) \o t : a \in Nums, b \in Nums, t \in FragTails}
        \cup OtherFragments

ResolvedVersions ==
    {[major |-> Number(a), minor |-> Number(b), patch |-> Number(c)] :
        a \in Nums, b \in Nums, c \in Nums}

\* a is after b in (major, minor, patch), compared numerically
VersionGt(a, b) ==
    \/ a.major.v > b.major.v
    \/ a.major.v = b.major.v /\ a.minor.v > b.minor.v
    \/ a.major.v = b.major.v /\ a.minor.v = b.minor.v /\ a.patch.v > b.patch.v

OtherType(t) == IF t = DEBUG THEN RELEASE ELSE DEBUG

\* the build types along a list: one lineage, or the two in turn
TypeAt(t, mixed, i) == IF mixed /\ i % 2 = 0 THEN OtherType(t) ELSE t

\* latest first, as getVersions orders its result; a version occurs at most
\* once per build type, as a folder name does in BUILDS_PATH
Descending(h) ==
    \A i \in 1..(Len(h) - 1) :
        \/ VersionGt(h[i].version, h[i + 1].version)
        \/ h[i].version = h[i + 1].version /\ h[i].type # h[i + 1].type

AppVersions == [type : BuildType, version : ResolvedVersions]

\* the list is of one lineage, or of the two in turn
Lineages(h) ==
    \E t \in BuildType, mixed \in BOOLEAN :
        \A i \in 1..Len(h) : h[i].type = TypeAt(t, mixed, i)

Histories ==
    {h \in UNION {[1..n -> AppVersions] : n \in 0..MaxHist} :
        Descending(h) /\ Lineages(h)}

InitPatch ==
    /\ fn = "getPatchedVersion"
    /\ \E h \in Histories : \E f \in PatchFragments :
            args = [version |-> f, orderedVersions |-> h]
    /\ ret = Pending
    /\ FlowInit

CallGetPatchedVersion ==
    /\ fn = "getPatchedVersion"
    /\ ret = Pending
    /\ ret' = getPatchedVersion(args.version, args.orderedVersions)
    /\ UNCHANGED <<fn, args, flowVars>>

NextPatch == CallGetPatchedVersion

SpecPatch == InitPatch /\ [][NextPatch]_vars

\* the call of getPatchedVersion has ended
PatchCalled == fn = "getPatchedVersion" /\ ret # Pending

\* the first element of a non-empty list of existing versions
First(h) == h[1].version

Frag3(a, b, c) == Frag2(a, b) \o <<".">> \o NatToStr(c)

\* C1: with a non-empty descending list whose first element is latest, a
\* patch-less fragment with major < latest.major, or major = latest.major and
\* minor < latest.minor, makes getPatchedVersion fail as too low.
C1_TooLowRejected ==
    (PatchCalled /\ args.orderedVersions # <<>>) =>
        \A a \in Nums, b \in Nums :
            ( /\ args.version = Frag2(a, b)
              /\ \/ a < First(args.orderedVersions).major.v
                 \/ /\ a = First(args.orderedVersions).major.v
                    /\ b < First(args.orderedVersions).minor.v )
            => ret = Thrown(ErrTooLow)

\* C1 witness: same major, a smaller minor, rejected as too low
C1_Witness ==
    /\ PatchCalled
    /\ args.orderedVersions # <<>>
    /\ args.version = Frag2(1, 0)
    /\ First(args.orderedVersions).major.v = 1
    /\ First(args.orderedVersions).minor.v = 1
    /\ ret = Thrown(ErrTooLow)

\* C2: every patch-less fragment strictly newer than latest in (major, minor),
\* a greater major with a smaller minor included, resolves to major.minor.0.
C2_NewerResolvesToZero ==
    (PatchCalled /\ args.orderedVersions # <<>>) =>
        \A a \in Nums, b \in Nums :
            ( /\ args.version = Frag2(a, b)
              /\ \/ a > First(args.orderedVersions).major.v
                 \/ /\ a = First(args.orderedVersions).major.v
                    /\ b > First(args.orderedVersions).minor.v )
            => ret = Returned(Frag3(a, b, 0))

\* C3: a fragment with latest's major and minor resolves to latest.patch + 1,
\* and one with latest's major and a greater minor resolves to patch 0.
C3_SameFamilyIncrements ==
    (PatchCalled /\ args.orderedVersions # <<>>) =>
        \A a \in Nums, b \in Nums :
            ( /\ args.version = Frag2(a, b)
              /\ a = First(args.orderedVersions).major.v )
            => /\ b = First(args.orderedVersions).minor.v
                    => ret = Returned(
                           Frag3(a, b, First(args.orderedVersions).patch.v + 1))
               /\ b > First(args.orderedVersions).minor.v
                    => ret = Returned(Frag3(a, b, 0))

\* C3 witness: latest 1.1.1 and request 1.1 give 1.1.2
C3_Witness ==
    /\ PatchCalled
    /\ args.orderedVersions # <<>>
    /\ args.version = Frag2(1, 1)
    /\ First(args.orderedVersions) =
            [major |-> Number(1), minor |-> Number(1), patch |-> Number(1)]
    /\ ret = Returned(Frag3(1, 1, 2))

\* the text up to its first underscore, where the lineage suffix starts
VersionPart(s) ==
    IF \E i \in 1..Len(s) : s[i] = "_"
    THEN SubSeq(s, 1, (CHOOSE i \in 1..Len(s) :
                          s[i] = "_" /\ \A j \in 1..(i - 1) : s[j] # "_") - 1)
    ELSE s

\* positions of the dots of a text
Dots(s) == {i \in 1..Len(s) : s[i] = "."}

\* the version part of the text has a third dot-separated segment
HasThirdSegment(s) == Cardinality(Dots(VersionPart(s))) >= 2

\* the version part of the text has a third dot-separated segment and it is
\* not empty
HasPatchText(s) ==
    LET v == VersionPart(s)
    IN \E i \in Dots(v), j \in Dots(v) :
          /\ i < j
          /\ \A k \in Dots(v) : k >= i
          /\ \A k \in Dots(v) : k > i => k >= j
          /\ j < Len(v)
          /\ v[j + 1] # "."

NoDuplicates(h) ==
    \A i \in 1..Len(h), j \in 1..Len(h) : i # j => h[i].version # h[j].version

\* C5: for a two-segment fragment and a descending list without duplicate
\* versions, a version that getPatchedVersion returns is not in the list.
C5_ResultNotInHistory ==
    ( /\ PatchCalled
      /\ ret.status = "returned"
      /\ NoDuplicates(args.orderedVersions)
      /\ \E a \in Nums, b \in Nums : args.version = Frag2(a, b) )
    => \A i \in 1..Len(args.orderedVersions) :
           ret.value # Frag3(args.orderedVersions[i].version.major.v,
                             args.orderedVersions[i].version.minor.v,
                             args.orderedVersions[i].version.patch.v)

\* C5 witness: two versions of the family exist and the next patch is returned
C5_Witness ==
    /\ PatchCalled
    /\ Len(args.orderedVersions) = 2
    /\ NoDuplicates(args.orderedVersions)
    /\ args.orderedVersions[1].version =
            [major |-> Number(1), minor |-> Number(0), patch |-> Number(1)]
    /\ args.orderedVersions[2].version =
            [major |-> Number(1), minor |-> Number(0), patch |-> Number(0)]
    /\ args.version = Frag2(1, 0)
    /\ ret = Returned(Frag3(1, 0, 2))

----------------------------------------------------------------------------
(* stringToVersion and versionToString applied to bounded inputs *)

Parts == 0..MaxPart

FormattedVersions ==
    {[major |-> Number(a), minor |-> Number(b), patch |-> Number(c)] :
        a \in Parts, b \in Parts, c \in Parts}

\* what may follow the formatted version in the text parsed back
Suffixes == {<<>>, SuffixDebug, SuffixRelease}

ParseTexts ==
    PatchFragments \cup
        {<<"1", ".", ".", "0">>, <<"1", "0", ".", "2">>, <<"_", "1", ".", "0">>,
         <<"1", ".", "2", ".", "3">> \o SuffixDebug, <<"1", ".", "2">> \o SuffixRelease}

InitParse ==
    /\ \/ /\ fn = "versionToString"
          /\ \E v \in FormattedVersions, suf \in Suffixes :
                 args = [version |-> v, suffix |-> suf]
       \/ /\ fn = "stringToVersion"
          /\ \E t \in ParseTexts : args = [version |-> t, formatted |-> FALSE]
    /\ ret = Pending
    /\ FlowInit

CallVersionToString ==
    /\ fn = "versionToString"
    /\ ret = Pending
    /\ ret' = Returned(versionToString(args.version))
    /\ UNCHANGED <<fn, args, flowVars>>

\* the formatted text, with the lineage suffix a folder name carries, is parsed
ParseFormatted ==
    /\ fn = "versionToString"
    /\ ret.status = "returned"
    /\ fn' = "stringToVersion"
    /\ args' = [version |-> ret.value \o args.suffix, formatted |-> TRUE,
                of |-> args.version, suffix |-> args.suffix]
    /\ ret' = Pending
    /\ UNCHANGED flowVars

CallStringToVersion ==
    /\ fn = "stringToVersion"
    /\ ret = Pending
    /\ ret' = stringToVersion(args.version)
    /\ UNCHANGED <<fn, args, flowVars>>

NextParse == CallVersionToString \/ ParseFormatted \/ CallStringToVersion

SpecParse == InitParse /\ [][NextParse]_vars

ParseCalled == fn = "stringToVersion" /\ ret # Pending

\* C7: for every version with resolved non-negative major, minor and patch,
\* parsing its formatted text gives the version back, with or without a
\* lineage suffix appended to the text.
C7_RoundTrip ==
    (ParseCalled /\ args.formatted) => ret = Returned(args.of)

\* C7 witness: 10.0.7 formatted, suffixed with _debug and parsed back
C7_Witness ==
    /\ ParseCalled
    /\ args.formatted
    /\ args.suffix = SuffixDebug
    /\ args.of = [major |-> Number(10), minor |-> Number(0), patch |-> Number(7)]
    /\ args.version = <<"1", "0", ".", "0", ".", "7">> \o SuffixDebug
    /\ ret = Returned(args.of)

\* a segment made of digits only, and of one at least
NumericSegment(seg) == seg # <<>> /\ \A i \in 1..Len(seg) : IsDigit(seg[i])

\* fewer than two segments before the lineage suffix, or a segment not numeric
BadFormat(text) ==
    LET segs == Split(Split(text, "_")[1], ".")
    IN Len(segs) < 2 \/ \E i \in 1..Len(segs) : ~NumericSegment(segs[i])

\* C8: stringToVersion fails as invalid whenever the text has fewer than two
\* segments or a segment that is not numeric (an empty one included), and never
\* returns a version holding something that is not a number.
C8_InvalidFormatRejected ==
    ParseCalled =>
        /\ BadFormat(args.version) => ret = Thrown(ErrInvalid)
        /\ ret.status = "returned" =>
              /\ IsNumber(ret.value.major)
              /\ IsNumber(ret.value.minor)
              /\ ret.value.patch.t # "NaN"

----------------------------------------------------------------------------
(* getBuildFiles applied to bounded inputs *)

\* the archive the packaging tool writes for a version, and its signature
ArtifactZip(v) ==
    <<"H", "u", "g", "i", "n", "n", "_">> \o v
        \o <<"_", "x", "6", "4", "-", "s", "e", "t", "u", "p", ".", "n", "s", "i", "s">>
        \o ExtZip

ArtifactSig(v) == ArtifactZip(v) \o ExtSig

V101 == <<"1", ".", "0", ".", "1">>
V1010 == <<"1", ".", "0", ".", "1", "0">>
V200 == <<"2", ".", "0", ".", "0">>

LocateVersions == {V101, V1010, V200}

LocateNames ==
    {ArtifactZip(V101), ArtifactSig(V101), ArtifactZip(V1010), ArtifactSig(V1010),
     ArtifactZip(V200),
     <<"H", "u", "g", "i", "n", "n", "_">> \o V101 \o <<".", "e", "x", "e">>,
     <<"n", "o", "t", "e", "s", ".", "z", "i", "p">>}

\* a directory listing: entry names, each once, in the order readdir gives
Listings(names, max) ==
    {l \in UNION {[1..n -> names] : n \in 0..max} :
        \A i \in 1..Len(l), j \in 1..Len(l) : i # j => l[i] # l[j]}

LocateDir == <<"/", "o", "u", "t">>

InitLocate ==
    /\ fn = "getBuildFiles"
    /\ \E l \in Listings(LocateNames, MaxEntries) : \E v \in LocateVersions :
            args = [buildPath |-> LocateDir, files |-> l, version |-> v]
    /\ ret = Pending
    /\ FlowInit

CallGetBuildFiles ==
    /\ fn = "getBuildFiles"
    /\ ret = Pending
    /\ ret' = getBuildFiles(args.buildPath, args.files, args.version)
    /\ UNCHANGED <<fn, args, flowVars>>

NextLocate == CallGetBuildFiles

SpecLocate == InitLocate /\ [][NextLocate]_vars

LocateCalled == fn = "getBuildFiles" /\ ret # Pending

\* the entries of the searched directory with the extension and the version text
Matching(ext) ==
    {i \in 1..Len(args.files) :
        EndsWith(args.files[i], ext) /\ Includes(args.files[i], args.version)}

\* C9: getBuildFiles fails as not found when no entry ends in .zip and contains
\* the version text, or none ends in .sig and contains it; with exactly one of
\* each it returns that pair, with paths inside the searched directory.
C9_LocateFindsPair ==
    LocateCalled =>
        /\ (Matching(ExtZip) = {} \/ Matching(ExtSig) = {})
               => ret = Thrown(ErrNotFound)
        /\ (Cardinality(Matching(ExtZip)) = 1 /\ Cardinality(Matching(ExtSig)) = 1)
               => \E z \in Matching(ExtZip), g \in Matching(ExtSig) :
                     ret = Returned(
                        [zipFile |-> [name |-> args.files[z],
                                      path |-> args.buildPath \o <<"/">> \o args.files[z]],
                         sigFile |-> [name |-> args.files[g],
                                      path |-> args.buildPath \o <<"/">> \o args.files[g]]])

\* C9 witness: the pair of 2.0.0 is absent and an archive of another version is there
C9_Witness ==
    /\ LocateCalled
    /\ args.version = V200
    /\ args.files = <<ArtifactSig(V101), ArtifactZip(V200), ArtifactZip(V101)>>
    /\ ret = Thrown(ErrNotFound)

----------------------------------------------------------------------------
(* getVersions applied to bounded inputs *)

\* the versions of the folders listed
ListedVersions ==
    { <<1, 2, 0>>, <<1, 2, 1>>, <<1, 3, 0>>, <<1, 10, 0>>, <<2, 0, 0>> }

\* the folder of a version and a build type under BUILDS_PATH
FolderName(v, type) == Frag3(v[1], v[2], v[3]) \o getVersionSuffix(type)

ListedFolders == {FolderName(v, t) : v \in ListedVersions, t \in BuildType}

InitList ==
    /\ fn = "getVersions"
    /\ \E l \in Listings(ListedFolders, MaxListed) : args = [listing |-> l]
    /\ ret = Pending
    /\ FlowInit

CallGetVersions ==
    /\ fn = "getVersions"
    /\ ret = Pending
    /\ ret' = getVersions(args.listing)
    /\ UNCHANGED <<fn, args, flowVars>>

NextList == CallGetVersions

SpecList == InitList /\ [][NextList]_vars

ListCalled == fn = "getVersions" /\ ret # Pending

AppVersionOf(v, type) ==
    [type |-> type,
     version |-> [major |-> Number(v[1]), minor |-> Number(v[2]), patch |-> Number(v[3])]]

\* C10: getVersions returns the versions of the folders, each once, latest
\* first in (major, minor, patch) compared as numbers; the folders 1.2.0_debug,
\* 1.3.0_debug, 1.2.1_debug are returned as 1.3.0, 1.2.1, 1.2.0.
C10_ListedDescending ==
    ListCalled =>
        /\ ret.status = "returned"
        /\ Len(ret.value) = Len(args.listing)
        /\ \A v \in ListedVersions, t \in BuildType :
              (\E i \in 1..Len(args.listing) : args.listing[i] = FolderName(v, t))
                 <=> (\E i \in 1..Len(ret.value) : ret.value[i] = AppVersionOf(v, t))
        /\ \A i \in 1..Len(ret.value), j \in 1..Len(ret.value) :
              i < j => ~VersionGt(ret.value[j].version, ret.value[i].version)
        /\ args.listing = <<FolderName(<<1, 2, 0>>, DEBUG), FolderName(<<1, 3, 0>>, DEBUG),
                            FolderName(<<1, 2, 1>>, DEBUG)>>
              => ret.value = <<AppVersionOf(<<1, 3, 0>>, DEBUG),
                               AppVersionOf(<<1, 2, 1>>, DEBUG),
                               AppVersionOf(<<1, 2, 0>>, DEBUG)>>

\* C10 witness: 1.2.0, 1.10.0 and 2.0.0 listed, returned as 2.0.0, 1.10.0, 1.2.0
C10_Witness ==
    /\ ListCalled
    /\ args.listing = <<FolderName(<<1, 2, 0>>, DEBUG), FolderName(<<1, 10, 0>>, RELEASE),
                        FolderName(<<2, 0, 0>>, DEBUG)>>
    /\ ret = Returned(<<AppVersionOf(<<2, 0, 0>>, DEBUG),
                        AppVersionOf(<<1, 10, 0>>, RELEASE),
                        AppVersionOf(<<1, 2, 0>>, DEBUG)>>)

----------------------------------------------------------------------------
(* index.ts: the names of a release and the update document *)

\* REPO_NAME of the environment
REPO == <<"h", "u", "g", "i", "n", "n">>

DevSuffix == <<"-", "d", "e", "v">>

\* releaseName without the -dev of a debug build
releaseNamePlain(version, type) == <<"v">> \o version

\* createGithubRelease: the name and the tag of the release
releaseName(version, type) ==
    IF type = DEBUG THEN <<"v">> \o version \o DevSuffix ELSE <<"v">> \o version

UrlHost ==
    <<"h", "t", "t", "p", "s", ":", "/", "/", "g", "i", "t", "h", "u", "b",
      ".", "c", "o", "m", "/", "W", "e", "r", "d", "o", "x", "D", "e", "v",
      "/">>

UrlDownload ==
    <<"/", "r", "e", "l", "e", "a", "s", "e", "s", "/", "d", "o", "w", "n",
      "l", "o", "a", "d", "/", "v">>

UrlFileHead == <<"/", "H", "u", "g", "i", "n", "n", "_">>

UrlFileTail ==
    <<"_", "x", "6", "4", "-", "s", "e", "t", "u", "p", ".", "n", "s", "i",
      "s", ".", "z", "i", "p">>

\* downloadUrl with the tag of a release build for both build types
downloadUrlPlain(type, version) ==
    UrlHost \o REPO \o UrlDownload \o version
        \o UrlFileHead \o version \o UrlFileTail

\* updateGistFile: the url of the archive among the assets of the release
downloadUrl(type, version) ==
    UrlHost \o REPO \o UrlDownload
        \o (version \o (IF type = DEBUG THEN DevSuffix ELSE <<>>))
        \o UrlFileHead \o version \o UrlFileTail

\* updateGistFile: the content written to huginn-version.json (the signature,
\* the notes and the date are not part of the model)
gistContent(type, version) ==
    [version |-> version, url |-> downloadUrl(type, version)]

\* buildVersion and createGithubRelease: the folder of a version under BUILDS_PATH
versionFolder(version, type) == version \o getVersionSuffix(type)

----------------------------------------------------------------------------
(* The names applied to bounded inputs *)

\* components of the versions named: one and two digits
NamedParts == {0, 1, 10}

NamedVersions ==
    {[major |-> Number(a), minor |-> Number(b), patch |-> Number(c)] :
        a \in NamedParts, b \in NamedParts, c \in NamedParts}

Named == [type : BuildType, version : NamedVersions]

\* s.slice(start, end) for 0 <= start <= end
Slice(s, start, end) ==
    SubSeq(s, start + 1, IF end < Len(s) THEN end ELSE Len(s))

\* Delete Release: the build type read back from the tag of a release
tagBuildType(tag) == IF Includes(tag, DevSuffix) THEN DEBUG ELSE RELEASE

\* Delete Release: the version read back from the tag of a release
tagVersion(tag) == stringToVersion(Slice(tag, 1, 6))

\* the names the program gives to one version of one build type, and what it
\* reads back from the folder name and from the tag
NamesOf(x) ==
    LET version == versionToString(x.version)
        folder == versionFolder(version, x.type)
    IN [text |-> version,
        folder |-> folder,
        tag |-> releaseName(version, x.type),
        content |-> gistContent(x.type, version),
        folderType |-> getFolderBuildType(folder),
        folderVersion |-> stringToVersion(folder),
        tagType |-> tagBuildType(releaseName(version, x.type)),
        tagVersion |-> tagVersion(releaseName(version, x.type))]

InitNames ==
    /\ fn = "names"
    /\ \E a \in Named : \E b \in Named : args = [a |-> a, b |-> b]
    /\ ret = Pending
    /\ FlowInit

CallNames ==
    /\ fn = "names"
    /\ ret = Pending
    /\ ret' = Returned([a |-> NamesOf(args.a), b |-> NamesOf(args.b)])
    /\ UNCHANGED <<fn, args, flowVars>>

NextNames == CallNames

SpecNames == InitNames /\ [][NextNames]_vars

NamesCalled == fn = "names" /\ ret # Pending

\* major.minor.patch of a version whose three numbers are resolved
Dotted(v) == Frag3(v.major.v, v.minor.v, v.patch.v)

\* C14: the folder is major.minor.patch followed by _debug or _release and the
\* tag is v, major.minor.patch and -dev for a debug build; two different
\* (version, build type) pairs share neither the folder name nor the tag, and
\* getFolderBuildType and stringToVersion applied to the folder name give the
\* build type and the version back.
C14_NamesInjective ==
    NamesCalled =>
        /\ ret.value.a.folder =
              Dotted(args.a.version)
                  \o (IF args.a.type = DEBUG THEN SuffixDebug ELSE SuffixRelease)
        /\ ret.value.a.tag =
              <<"v">> \o Dotted(args.a.version)
                  \o (IF args.a.type = DEBUG THEN DevSuffix ELSE <<>>)
        /\ args.a # args.b =>
              /\ ret.value.a.folder # ret.value.b.folder
              /\ ret.value.a.tag # ret.value.b.tag
        /\ ret.value.a.folderType = args.a.type
        /\ ret.value.a.folderVersion = Returned(args.a.version)

\* C14 witness: 1.10.0 of the two build types, folders and tags apart
C14_Witness ==
    /\ NamesCalled
    /\ args.a.version = [major |-> Number(1), minor |-> Number(10), patch |-> Number(0)]
    /\ args.b.version = args.a.version
    /\ args.a.type = DEBUG
    /\ args.b.type = RELEASE
    /\ ret.value.a.folder = <<"1", ".", "1", "0", ".", "0">> \o SuffixDebug
    /\ ret.value.b.folder = <<"1", ".", "1", "0", ".", "0">> \o SuffixRelease
    /\ ret.value.a.tag = <<"v", "1", ".", "1", "0", ".", "0", "-", "d", "e", "v">>
    /\ ret.value.b.tag = <<"v", "1", ".", "1", "0", ".", "0">>

\* the segment of the url between /releases/download/ and the file name
TagOfUrl(url) == Split(url, "/")[8]

\* the file name of the url
FileOfUrl(url) == Split(url, "/")[9]

\* C15: the url written to the update document has, as its tag segment, the
\* tag createGithubRelease gives the same version and build type, and contains
\* the version text; the version field of the document is the version text,
\* without a leading v.
C15_UrlEmbedsTag ==
    NamesCalled =>
        /\ Len(Split(ret.value.a.content.url, "/")) = 9
        /\ TagOfUrl(ret.value.a.content.url) = ret.value.a.tag
        /\ Includes(FileOfUrl(ret.value.a.content.url), Dotted(args.a.version))
        /\ ret.value.a.content.version = Dotted(args.a.version)
        /\ Head(ret.value.a.content.version) # "v"

\* C15 witness: 1.0.1 of the debug builds, downloaded from the tag v1.0.1-dev
C15_Witness ==
    /\ NamesCalled
    /\ args.a.type = DEBUG
    /\ args.a.version = [major |-> Number(1), minor |-> Number(0), patch |-> Number(1)]
    /\ TagOfUrl(ret.value.a.content.url) =
            <<"v", "1", ".", "0", ".", "1", "-", "d", "e", "v">>
    /\ ret.value.a.content.version = <<"1", ".", "0", ".", "1">>

----------------------------------------------------------------------------
(* index.ts: the workflows, one request at a time *)

BUILDS_PATH == <<"/", "b", "u", "i", "l", "d", "s">>

TauriBuildPath(type) ==
    IF type = DEBUG THEN <<"/", "t", "a", "u", "r", "i", "/", "d", "e", "b", "u", "g">>
    ELSE <<"/", "t", "a", "u", "r", "i", "/", "r", "e", "l", "e", "a", "s", "e">>

\* the orders in which readdir may list the entries of a directory
RECURSIVE Readdir(_)
Readdir(entries) ==
    IF entries = {} THEN {<<>>}
    ELSE UNION {{<<x>> \o l : l \in Readdir(entries \ {x})} : x \in entries}

\* the listings of BUILDS_PATH that getVersions can tell apart: when no two
\* folder names compare equal, the sort gives the same list whatever order
\* readdir lists them in, and one order stands for all
FolderOrders(entries) ==
    IF \A a \in entries, b \in entries : a # b => folderOrder(a, b) # 0
    THEN {CHOOSE l \in Readdir(entries) : TRUE}
    ELSE Readdir(entries)

BuildFragments ==
    {Frag2(a, b) : a \in 0..MaxBuildNum, b \in 0..MaxBuildNum}
        \cup {Frag3(1, 0, 0), <<"1">>}

\* the archive and the signature a completed build leaves in its folder
BuiltPair(v) == {ArtifactZip(v), ArtifactSig(v)}

V100 == <<"1", ".", "0", ".", "0">>
V110 == <<"1", ".", "1", ".", "0">>
V1000 == <<"1", "0", ".", "0", ".", "0">>

\* BUILDS_PATH as completed builds of earlier runs leave it: empty, 1.0.0 of
\* the release builds, then 1.1.0 of the debug builds as well, or 10.0.0
InitialBuilds ==
    {NoFiles,
     [d \in {versionFolder(V100, RELEASE)} |-> BuiltPair(V100)],
     [d \in {versionFolder(V100, RELEASE), versionFolder(V110, DEBUG)} |->
         IF d = versionFolder(V100, RELEASE) THEN BuiltPair(V100) ELSE BuiltPair(V110)],
     [d \in {versionFolder(V1000, RELEASE)} |-> BuiltPair(V1000)]}

\* no request is running
Idle == pc = "idle"

NoRequest == [intent |-> "none"]

\* the folders and the remote state a request finds
Snapshot == [builds |-> builds, releases |-> releases, tags |-> tags, gist |-> gist]

\* intent 0: the prompts of Build are answered
StartBuild ==
    /\ Idle
    /\ served < MaxRequests
    /\ served' = served + 1
    /\ \E v \in BuildFragments, t \in BuildType :
          req' = [intent |-> "build", version |-> v, type |-> t,
                  error |-> "none", files |-> Pending]
    /\ resolved' = Pending
    /\ pc' = "build:resolve"
    /\ before' = Snapshot
    /\ UNCHANGED <<utilVars, remoteVars, lastPublished, builds, cargoToml, packageJson>>

\* buildVersion: getVersions() and getPatchedVersion(version, versions)
BuildResolve ==
    /\ pc = "build:resolve"
    /\ \E listing \in FolderOrders(DOMAIN builds) :
          LET versions == getVersions(listing)
              newVersion == IF versions.status = "thrown" THEN versions
                            ELSE getPatchedVersion(req.version, versions.value)
          IN /\ resolved' = newVersion
             /\ IF newVersion.status = "thrown"
                THEN /\ pc' = "failed"
                     /\ req' = [req EXCEPT !.error = newVersion.error]
                ELSE /\ pc' = "build:manifests"
                     /\ UNCHANGED req
    /\ UNCHANGED <<utilVars, remoteVars, before, lastPublished, builds, cargoToml,
                   packageJson, served>>

\* BuildWriteManifests without the call of writePackageJsonVersion
BuildWriteCargoOnly ==
    /\ pc = "build:manifests"
    /\ cargoToml' = resolved.value
    /\ pc' = "build:tauri"
    /\ UNCHANGED <<utilVars, remoteVars, before, lastPublished, builds, req,
                   packageJson, resolved, served>>

\* buildVersion: writeCargoTomlVersion and writePackageJsonVersion
BuildWriteManifests ==
    /\ pc = "build:manifests"
    /\ cargoToml' = resolved.value
    /\ packageJson' = resolved.value
    /\ pc' = "build:tauri"
    /\ UNCHANGED <<utilVars, remoteVars, before, lastPublished, builds, req,
                   resolved, served>>

\* newVersion + getVersionSuffix(type), the folder under BUILDS_PATH
newVersionFolder == versionFolder(resolved.value, req.type)

\* builds with one more folder, holding files
WithFolder(folder, files) ==
    [d \in DOMAIN builds \cup {folder} |-> IF d = folder THEN files ELSE builds[d]]

\* BuildRunTauri with the folder made before the packaging tool runs
BuildRunTauriAfterMkdir ==
    /\ pc = "build:tauri"
    /\ \/ /\ pc' = "failed"
          /\ req' = [req EXCEPT !.error = "ShellError"]
          /\ builds' = WithFolder(newVersionFolder, {})
       \/ /\ pc' = "build:mkdir"
          /\ UNCHANGED <<req, builds>>
    /\ UNCHANGED <<utilVars, remoteVars, before, lastPublished, cargoToml,
                   packageJson, resolved, served>>

\* buildVersion: bun tauri-build [--debug]; the shell throws on a non-zero exit
BuildRunTauri ==
    /\ pc = "build:tauri"
    /\ \/ /\ pc' = "failed"
          /\ req' = [req EXCEPT !.error = "ShellError"]
       \/ /\ pc' = "build:mkdir"
          /\ UNCHANGED req
    /\ UNCHANGED <<utilVars, remoteVars, before, lastPublished, builds, cargoToml,
                   packageJson, resolved, served>>

\* another run of the program, resolving the same version from the same
\* folders, makes the folder and copies its pair while this run waits for the
\* packaging tool; for this run it matters only at its own mkdir
OtherRunBuilds ==
    /\ pc = "build:mkdir"
    /\ newVersionFolder \notin DOMAIN builds
    /\ builds' = WithFolder(newVersionFolder, BuiltPair(resolved.value))
    /\ UNCHANGED <<utilVars, remoteVars, before, lastPublished, cargoToml,
                   packageJson, pc, req, resolved, served>>

\* BuildMkdir with mkdir(newVersionPath, { recursive: true }), which does not
\* fail when the folder exists
BuildMkdirRecursive ==
    /\ pc = "build:mkdir"
    /\ pc' = "build:locate"
    /\ builds' = IF newVersionFolder \in DOMAIN builds THEN builds
                 ELSE WithFolder(newVersionFolder, {})
    /\ UNCHANGED <<utilVars, remoteVars, before, lastPublished, cargoToml,
                   packageJson, req, resolved, served>>

\* buildVersion: mkdir(newVersionPath), which fails when the folder exists
BuildMkdir ==
    /\ pc = "build:mkdir"
    /\ IF newVersionFolder \in DOMAIN builds
       THEN /\ pc' = "failed"
            /\ req' = [req EXCEPT !.error = "EEXIST"]
            /\ UNCHANGED builds
       ELSE /\ pc' = "build:locate"
            /\ builds' = WithFolder(newVersionFolder, {})
            /\ UNCHANGED req
    /\ UNCHANGED <<utilVars, remoteVars, before, lastPublished, cargoToml,
                   packageJson, resolved, served>>

\* what the packaging tool may have left in its output directory after exit
\* 0: the bundle of the version in the manifests, its archive alone, or nothing
TauriOutputs ==
    {{ArtifactZip(packageJson), ArtifactSig(packageJson)},
     {ArtifactZip(packageJson)}, {}}

\* BuildLocate removing the folder it made when the bundle is not found
BuildLocateRollback ==
    /\ pc = "build:locate"
    /\ \E out \in TauriOutputs : \E listing \in Readdir(out) :
          LET files == getBuildFiles(TauriBuildPath(req.type), listing, resolved.value)
          IN IF files.status = "thrown"
             THEN /\ pc' = "failed"
                  /\ req' = [req EXCEPT !.error = files.error]
                  /\ builds' = [d \in DOMAIN builds \ {newVersionFolder} |-> builds[d]]
             ELSE /\ pc' = "build:copyZip"
                  /\ req' = [req EXCEPT !.files = files]
                  /\ UNCHANGED builds
    /\ UNCHANGED <<utilVars, remoteVars, before, lastPublished, cargoToml,
                   packageJson, resolved, served>>

\* buildVersion: getBuildFiles(TAURI_*_BUILD_PATH, newVersion)
BuildLocate ==
    /\ pc = "build:locate"
    /\ \E out \in TauriOutputs : \E listing \in Readdir(out) :
          LET files == getBuildFiles(TauriBuildPath(req.type), listing, resolved.value)
          IN IF files.status = "thrown"
             THEN /\ pc' = "failed"
                  /\ req' = [req EXCEPT !.error = files.error]
             ELSE /\ pc' = "build:copyZip"
                  /\ req' = [req EXCEPT !.files = files]
    /\ UNCHANGED <<utilVars, remoteVars, before, lastPublished, builds, cargoToml,
                   packageJson, resolved, served>>

\* buildVersion: Bun.write of the .zip into the new folder
BuildCopyZip ==
    /\ pc = "build:copyZip"
    /\ builds' = [builds EXCEPT ![newVersionFolder] = @ \cup {req.files.value.zipFile.name}]
    /\ pc' = "build:copySig"
    /\ UNCHANGED <<utilVars, remoteVars, before, lastPublished, cargoToml,
                   packageJson, req, resolved, served>>

\* BuildCopySig making the release of the new version once the copy is done
BuildCopySigPublishing ==
    /\ pc = "build:copySig"
    /\ builds' = [builds EXCEPT ![newVersionFolder] = @ \cup {req.files.value.sigFile.name}]
    /\ releases' = releases \cup
           {[id |-> served, tag |-> releaseName(resolved.value, req.type),
             assets |-> {}]}
    /\ tags' = tags \cup {releaseName(resolved.value, req.type)}
    /\ pc' = "completed"
    /\ UNCHANGED <<utilVars, gist, before, lastPublished, cargoToml,
                   packageJson, req, resolved, served>>

\* BuildCopySig reporting completion without the copy of the .sig
BuildCopySigSkipped ==
    /\ pc = "build:copySig"
    /\ pc' = "completed"
    /\ UNCHANGED <<utilVars, remoteVars, before, lastPublished, builds, cargoToml,
                   packageJson, req, resolved, served>>

\* buildVersion: Bun.write of the .sig into the new folder, and completion
BuildCopySig ==
    /\ pc = "build:copySig"
    /\ builds' = [builds EXCEPT ![newVersionFolder] = @ \cup {req.files.value.sigFile.name}]
    /\ pc' = "completed"
    /\ UNCHANGED <<utilVars, remoteVars, before, lastPublished, cargoToml,
                   packageJson, req, resolved, served>>

\* intent 1: a version of the getVersions listing is selected to publish
StartPublish ==
    /\ Idle
    /\ served < MaxRequests
    /\ served' = served + 1
    /\ \E listing \in FolderOrders(DOMAIN builds) :
          LET versions == getVersions(listing)
          IN /\ versions.status = "returned"
             /\ \E i \in 1..Len(versions.value) :
                   req' = [intent |-> "publish",
                           version |-> versionToString(versions.value[i].version),
                           type |-> versions.value[i].type,
                           error |-> "none", files |-> Pending, release |-> 0]
    /\ resolved' = Pending
    /\ pc' = "publish:create"
    /\ before' = Snapshot
    /\ UNCHANGED <<utilVars, remoteVars, lastPublished, builds, cargoToml, packageJson>>

\* the errors octokit throws when the request of a remote call is not served,
\* one name for each call of the program
RequestErrors ==
    {"RequestError: uploadReleaseAsset .zip", "RequestError: uploadReleaseAsset .sig",
     "RequestError: gists.update", "RequestError: deleteRelease",
     "RequestError: deleteRef"}

\* tagConflict that never reports a conflict
tagConflictNever(tag, existing) == FALSE

\* repos.createRelease is refused (422, already_exists) when a release of the
\* repository has the tag
tagConflict(tag, existing) == \E r \in existing : r.tag = tag

\* createGithubRelease: repos.createRelease, which makes the tag as well
PublishCreate ==
    /\ pc = "publish:create"
    /\ LET tagName == releaseName(req.version, req.type)
       IN IF tagConflict(tagName, releases)
          THEN /\ pc' = "failed"
               /\ req' = [req EXCEPT !.error = "already_exists"]
               /\ UNCHANGED <<releases, tags>>
          ELSE /\ pc' = "publish:locate"
               /\ releases' = releases \cup
                      {[id |-> served, tag |-> tagName, assets |-> {}]}
               /\ tags' = tags \cup {tagName}
               /\ req' = [req EXCEPT !.release = served]
    /\ UNCHANGED <<utilVars, gist, before, lastPublished, builds, cargoToml,
                   packageJson, resolved, served>>

\* getBuildFiles on the folder of the version under BUILDS_PATH; readdir fails
\* when the folder is not there
LocalFiles(version, type, listing) ==
    getBuildFiles(PathResolve(BUILDS_PATH, versionFolder(version, type)),
                  listing, version)

\* the orders readdir may list the folder of the request in; none without it
FolderListings ==
    IF versionFolder(req.version, req.type) \in DOMAIN builds
    THEN Readdir(builds[versionFolder(req.version, req.type)])
    ELSE {}

\* createGithubRelease: getBuildFiles, after the release is made
PublishLocate ==
    /\ pc = "publish:locate"
    /\ IF FolderListings = {}
       THEN /\ pc' = "failed"
            /\ req' = [req EXCEPT !.error = "ENOENT"]
       ELSE \E listing \in FolderListings :
               LET files == LocalFiles(req.version, req.type, listing)
               IN IF files.status = "thrown"
                  THEN /\ pc' = "failed"
                       /\ req' = [req EXCEPT !.error = files.error]
                  ELSE /\ pc' = "publish:uploadZip"
                       /\ req' = [req EXCEPT !.files = files]
    /\ UNCHANGED <<utilVars, remoteVars, before, lastPublished, builds, cargoToml,
                   packageJson, resolved, served>>

\* repos.uploadReleaseAsset: the release of that id gets an asset of that name
uploadReleaseAsset(existing, id, name) ==
    {IF r.id = id THEN [r EXCEPT !.assets = @ \cup {name}] ELSE r : r \in existing}

\* PublishUploadZip going on to the .sig without the upload of the .zip
PublishUploadZipSkipped ==
    /\ pc = "publish:uploadZip"
    /\ pc' = "publish:uploadSig"
    /\ UNCHANGED <<utilVars, remoteVars, before, lastPublished, builds, cargoToml,
                   packageJson, req, resolved, served>>

\* createGithubRelease: the .zip is uploaded to the release
PublishUploadZip ==
    /\ pc = "publish:uploadZip"
    /\ \/ /\ releases' = uploadReleaseAsset(releases, req.release,
                                             req.files.value.zipFile.name)
          /\ pc' = "publish:uploadSig"
          /\ UNCHANGED req
       \/ /\ pc' = "failed"
          /\ req' = [req EXCEPT !.error = "RequestError: uploadReleaseAsset .zip"]
          /\ UNCHANGED releases
    /\ UNCHANGED <<utilVars, tags, gist, before, lastPublished, builds, cargoToml,
                   packageJson, resolved, served>>

\* createGithubRelease: the .sig is uploaded to the release
PublishUploadSig ==
    /\ pc = "publish:uploadSig"
    /\ \/ /\ releases' = uploadReleaseAsset(releases, req.release,
                                             req.files.value.sigFile.name)
          /\ pc' = "publish:gist"
          /\ UNCHANGED req
       \/ /\ pc' = "failed"
          /\ req' = [req EXCEPT !.error = "RequestError: uploadReleaseAsset .sig"]
          /\ UNCHANGED releases
    /\ UNCHANGED <<utilVars, tags, gist, before, lastPublished, builds, cargoToml,
                   packageJson, resolved, served>>

\* gistsUpdate keeping the file when it describes a later version
gistsUpdateKeepHighest(current, content) ==
    IF current.version # <<>> /\ semverOrder(current.version, content.version) > 0
    THEN current
    ELSE content

\* gists.update: the file huginn-version.json gets the content
gistsUpdate(current, content) == content

\* updateGistFile: getBuildFiles again, then the one file of the gist is written
PublishGist ==
    /\ pc = "publish:gist"
    /\ IF FolderListings = {}
       THEN /\ pc' = "failed"
            /\ req' = [req EXCEPT !.error = "ENOENT"]
            /\ UNCHANGED gist
       ELSE \E listing \in FolderListings :
               LET files == LocalFiles(req.version, req.type, listing)
               IN IF files.status = "thrown"
                  THEN /\ pc' = "failed"
                       /\ req' = [req EXCEPT !.error = files.error]
                       /\ UNCHANGED gist
                  ELSE \/ /\ pc' = "completed"
                          /\ gist' = gistsUpdate(gist, gistContent(req.type, req.version))
                          /\ UNCHANGED req
                       \/ /\ pc' = "failed"
                          /\ req' = [req EXCEPT !.error = "RequestError: gists.update"]
                          /\ UNCHANGED gist
    /\ UNCHANGED <<utilVars, releases, tags, before, lastPublished, builds,
                   cargoToml, packageJson, resolved, served>>

\* intent 2: the releases are listed, each tag is read back as a build type
\* and a version, and one release is selected
StartDeleteRelease ==
    /\ Idle
    /\ served < MaxRequests
    /\ served' = served + 1
    /\ \A x \in releases : tagVersion(x.tag).status = "returned"
    /\ \E x \in releases :
          req' = [intent |-> "deleteRelease",
                  version |-> versionToString(tagVersion(x.tag).value),
                  type |-> tagBuildType(x.tag),
                  error |-> "none", files |-> Pending,
                  release |-> x.id, tag |-> x.tag]
    /\ resolved' = Pending
    /\ pc' = "deleteRelease:release"
    /\ before' = Snapshot
    /\ UNCHANGED <<utilVars, remoteVars, lastPublished, builds, cargoToml, packageJson>>

\* DeleteReleaseCall removing the folders of the version as well
DeleteReleaseAndFolders ==
    /\ pc = "deleteRelease:release"
    /\ releases' = {r \in releases : r.id # req.release}
    /\ builds' = [d \in {e \in DOMAIN builds : ~Includes(e, req.version)} |-> builds[d]]
    /\ pc' = "deleteRelease:ref"
    /\ UNCHANGED <<utilVars, tags, gist, before, lastPublished, cargoToml,
                   packageJson, req, resolved, served>>

\* DeleteReleaseCall in a try block whose catch logs the error and goes on
DeleteReleaseCallSwallow ==
    /\ pc = "deleteRelease:release"
    /\ \/ /\ releases' = {r \in releases : r.id # req.release}
          /\ UNCHANGED req
       \/ /\ req' = [req EXCEPT !.error = "RequestError: deleteRelease"]
          /\ UNCHANGED releases
    /\ pc' = "deleteRelease:ref"
    /\ UNCHANGED <<utilVars, tags, gist, before, lastPublished, builds, cargoToml,
                   packageJson, resolved, served>>

\* repos.deleteRelease of the selected release
DeleteReleaseCall ==
    /\ pc = "deleteRelease:release"
    /\ \/ /\ releases' = {r \in releases : r.id # req.release}
          /\ pc' = "deleteRelease:ref"
          /\ UNCHANGED req
       \/ /\ pc' = "failed"
          /\ req' = [req EXCEPT !.error = "RequestError: deleteRelease"]
          /\ UNCHANGED releases
    /\ UNCHANGED <<utilVars, tags, gist, before, lastPublished, builds, cargoToml,
                   packageJson, resolved, served>>

\* DeleteRef putting the release back when the tag cannot be deleted
DeleteRefRestoring ==
    /\ pc = "deleteRelease:ref"
    /\ \/ /\ tags' = tags \ {req.tag}
          /\ pc' = "completed"
          /\ UNCHANGED <<req, releases>>
       \/ /\ pc' = "failed"
          /\ req' = [req EXCEPT !.error = "RequestError: deleteRef"]
          /\ releases' = before.releases
          /\ UNCHANGED tags
    /\ UNCHANGED <<utilVars, gist, before, lastPublished, builds,
                   cargoToml, packageJson, resolved, served>>

\* git.deleteRef of tags/<tag of the selected release>
DeleteRef ==
    /\ pc = "deleteRelease:ref"
    /\ \/ /\ tags' = tags \ {req.tag}
          /\ pc' = "completed"
          /\ UNCHANGED req
       \/ /\ pc' = "failed"
          /\ req' = [req EXCEPT !.error = "RequestError: deleteRef"]
          /\ UNCHANGED tags
    /\ UNCHANGED <<utilVars, releases, gist, before, lastPublished, builds,
                   cargoToml, packageJson, resolved, served>>

\* intent 3: a version of the getVersions listing is selected and its folder
\* is removed with rm(..., { force: true, recursive: true })
DeleteBuild ==
    /\ Idle
    /\ served < MaxRequests
    /\ served' = served + 1
    /\ \E listing \in FolderOrders(DOMAIN builds) :
          LET versions == getVersions(listing)
          IN /\ versions.status = "returned"
             /\ \E i \in 1..Len(versions.value) :
                   LET version == versions.value[i]
                       folder == versionToString(version.version)
                                    \o getVersionSuffix(version.type)
                   IN /\ builds' = [d \in DOMAIN builds \ {folder} |-> builds[d]]
                      /\ req' = [intent |-> "deleteBuild",
                                 version |-> versionToString(version.version),
                                 type |-> version.type,
                                 error |-> "none", files |-> Pending,
                                 selected |-> Reverse(SortFolders(listing))[i]]
    /\ resolved' = Pending
    /\ pc' = "completed"
    /\ before' = Snapshot
    /\ UNCHANGED <<utilVars, remoteVars, lastPublished, cargoToml, packageJson>>

\* the process ends, with the success message or with the error thrown
Exit ==
    /\ pc \in {"completed", "failed"}
    /\ pc' = "idle"
    /\ req' = NoRequest
    /\ resolved' = Pending
    /\ before' = NoSnapshot
    /\ lastPublished' = IF req.intent = "publish" /\ pc = "completed"
                        THEN [version |-> req.version, type |-> req.type]
                        ELSE lastPublished
    /\ UNCHANGED <<utilVars, remoteVars, builds, cargoToml, packageJson, served>>

\* the state a completed Build of 1.0 and a completed Create Release of
\* 1.0.0 of the release builds leave: the folder, the release with its two
\* assets, its tag, and the gist file describing it
PublishedInit ==
    /\ builds = [d \in {versionFolder(V100, RELEASE)} |-> BuiltPair(V100)]
    /\ releases = {[id |-> 0, tag |-> releaseName(V100, RELEASE),
                    assets |-> BuiltPair(V100)]}
    /\ tags = {releaseName(V100, RELEASE)}
    /\ gist = gistsUpdate(NoGist, gistContent(RELEASE, V100))
    /\ before = NoSnapshot
    /\ lastPublished = [version |-> V100, type |-> RELEASE]

Init ==
    /\ fn = "none"
    /\ args = <<>>
    /\ ret = Pending
    /\ \/ RemoteInit /\ builds \in InitialBuilds
       \/ PublishedInit
    /\ cargoToml = <<"0", ".", "0", ".", "0">>
    /\ packageJson = <<"0", ".", "0", ".", "0">>
    /\ pc = "idle"
    /\ req = NoRequest
    /\ resolved = Pending
    /\ served = 0

Next ==
    \/ StartBuild
    \/ BuildResolve
    \/ BuildWriteManifests
    \/ BuildRunTauri
    \/ OtherRunBuilds
    \/ BuildMkdir
    \/ BuildLocate
    \/ BuildCopyZip
    \/ BuildCopySig
    \/ StartPublish
    \/ PublishCreate
    \/ PublishLocate
    \/ PublishUploadZip
    \/ PublishUploadSig
    \/ PublishGist
    \/ StartDeleteRelease
    \/ DeleteReleaseCall
    \/ DeleteRef
    \/ DeleteBuild
    \/ Exit

Spec == Init /\ [][Next]_vars

\* the folders of one build type, as getVersions would list them alone
LineageFolders(type) == {d \in DOMAIN builds : getFolderBuildType(d) = type}

\* the build request has just resolved its version, or failed to
BuildResolved ==
    /\ req.intent = "build"
    /\ \/ pc = "build:manifests"
       \/ pc = "failed" /\ resolved.status = "thrown"

\* C6: what a build resolves, or that it is refused as too low, depends on
\* the version folders of its own build type only: it is what the folders of
\* that build type alone would give.
C6_LineageIndependent ==
    BuildResolved =>
        \A listing \in Readdir(LineageFolders(req.type)) :
            resolved = getPatchedVersion(req.version, getVersions(listing).value)

----------------------------------------------------------------------------
(* The workflows: failures, publishing and deleting *)

\* C11: when the folder of the resolved version and build type exists at the
\* mkdir of a build, the build fails there with the folder-exists error and
\* the folders and the files in them stay as they are: nothing is copied.
C11_ExistingFolderRefused ==
    [][(pc = "build:mkdir" /\ newVersionFolder \in DOMAIN builds)
          => /\ pc' = "failed"
             /\ req'.error = "EEXIST"
             /\ builds' = builds]_vars

\* C11 witness: the build has failed on the existing folder, which holds the
\* pair another run copied
C11_Witness ==
    /\ req.intent = "build"
    /\ pc = "failed"
    /\ req.error = "EEXIST"
    /\ newVersionFolder \in DOMAIN builds
    /\ builds[newVersionFolder] = BuiltPair(resolved.value)

\* the folder of the publish request is missing, or the archive or the
\* signature of the version is not in it
LocalIncomplete ==
    \A listing \in FolderListings :
        LocalFiles(req.version, req.type, listing).status = "thrown"

\* C12: a publish request whose local folder is missing or lacks the archive
\* or the signature fails, and no release and no tag is made for it.
C12_PublishRequiresArtifacts ==
    (req.intent = "publish" /\ LocalIncomplete) =>
        /\ pc \in {"publish:create", "failed"}
        /\ releases = before.releases
        /\ tags = before.tags

\* C13: when a release of the tag exists at createRelease, the publish request
\* fails there with the error of the remote call, and the releases, their
\* assets, the tags and the update document are as the request found them.
C13_TagConflictPropagates ==
    /\ [][(pc = "publish:create"
             /\ \E r \in releases : r.tag = releaseName(req.version, req.type))
            => /\ pc' = "failed"
               /\ req'.error = "already_exists"
               /\ UNCHANGED <<releases, tags, gist>>]_vars
    /\ []((req.intent = "publish" /\ pc = "failed" /\ req.error = "already_exists")
            => /\ releases = before.releases
               /\ tags = before.tags
               /\ gist = before.gist)

\* C13 witness: the version is published a second time and the request fails
\* on the tag, the first release keeping its two assets
C13_Witness ==
    /\ req.intent = "publish"
    /\ pc = "failed"
    /\ req.error = "already_exists"
    /\ gist = gistContent(req.type, req.version)
    /\ \E r \in releases :
          /\ r.tag = releaseName(req.version, req.type)
          /\ r.assets = BuiltPair(req.version)

\* a Create Release request has written the update document and not ended yet
JustPublished == req.intent = "publish" /\ pc = "completed"

\* C16: there is one update document for the two build types, and it holds
\* the version of the last Create Release request that ran to its end,
\* whatever its build type and whether or not a later version was published.
C16_LatestUpdateWins ==
    ~JustPublished =>
        /\ gist.version = lastPublished.version
        /\ lastPublished = NoneYet <=> gist = NoGist
        /\ lastPublished # NoneYet =>
              gist = gistContent(lastPublished.type, lastPublished.version)

\* C16 witness: 1.1.0 of the debug builds was published, then 1.0.0 of the
\* release builds, and the document holds 1.0.0
C16_Witness ==
    /\ Idle
    /\ lastPublished = [version |-> V100, type |-> RELEASE]
    /\ gist.version = V100
    /\ \E r \in releases :
          r.tag = releaseName(V110, DEBUG) /\ r.assets = BuiltPair(V110)

\* C17: a Delete Release request leaves the folders of BUILDS_PATH and their
\* files as it found them, and a Delete Build request leaves the releases,
\* the tags and the update document as it found them.
C17_DeletesIndependent ==
    /\ req.intent = "deleteRelease" => builds = before.builds
    /\ req.intent = "deleteBuild" =>
          /\ releases = before.releases
          /\ tags = before.tags
          /\ gist = before.gist

\* C17 witness: the release and its tag are deleted and the folder of the
\* version is still there with its pair
C17_Witness ==
    /\ req.intent = "deleteRelease"
    /\ pc = "completed"
    /\ before.releases # {}
    /\ releases = {}
    /\ tags = {}
    /\ versionFolder(req.version, req.type) \in DOMAIN builds
    /\ builds[versionFolder(req.version, req.type)] = BuiltPair(req.version)

\* C18: when the packaging tool exits with a non-zero code the build fails,
\* and the folders of BUILDS_PATH and their files are as the request found
\* them: no folder is made and nothing is copied.
C18_PackagingFailureLeavesFolders ==
    (req.intent = "build" /\ pc = "failed" /\ req.error = "ShellError")
        => builds = before.builds

\* C18 witness: a build of 1.1 failed in the packaging tool with 1.0.0 in place
C18_Witness ==
    /\ req.intent = "build"
    /\ pc = "failed"
    /\ req.error = "ShellError"
    /\ resolved = Returned(V110)
    /\ DOMAIN builds = {versionFolder(V100, RELEASE)}
    /\ builds = before.builds

\* the errors of a build that fails at the packaging tool or after it
LateErrors == {"ShellError", "EEXIST", ErrNotFound}

\* C19: when a build fails at the packaging tool or after it, the two
\* manifests hold the version resolved for the build, and the folder the
\* build made is still there.
C19_NoRollback ==
    (req.intent = "build" /\ pc = "failed" /\ req.error \in LateErrors) =>
        /\ cargoToml = resolved.value
        /\ packageJson = resolved.value
        /\ req.error = ErrNotFound =>
              /\ newVersionFolder \in DOMAIN builds
              /\ newVersionFolder \notin DOMAIN before.builds

\* C19 witness: the bundle was not found; the manifests hold 1.0.1 and the
\* empty folder of the build is there
C19_Witness ==
    /\ req.intent = "build"
    /\ pc = "failed"
    /\ req.error = ErrNotFound
    /\ resolved = Returned(V101)
    /\ cargoToml = V101
    /\ packageJson = V101
    /\ newVersionFolder \in DOMAIN builds
    /\ builds[newVersionFolder] = {}
    /\ newVersionFolder \notin DOMAIN before.builds

\* C20: no workflow renders a version text with an undefined patch: the text
\* versionToString gives for the selected version, and the version a build
\* resolves, never hold "undefined".
C20_NoUndefinedPatchRendered ==
    /\ req.intent \in {"publish", "deleteRelease", "deleteBuild"}
          => ~Includes(req.version, ToStr(undefined))
    /\ resolved.status = "returned" => ~Includes(resolved.value, ToStr(undefined))

----------------------------------------------------------------------------
(* getBuildFiles and getPatchedVersion: several matches, no version yet *)

\* the first position of the listing whose entry has the extension and the
\* version text
Lowest(ext) == CHOOSE i \in Matching(ext) : \A j \in Matching(ext) : i <= j

\* C24: when entries match, several included, getBuildFiles does not fail: it
\* returns the first entry of the listing that ends in .zip and contains the
\* version text, and the first that ends in .sig and contains it.
C24_FirstMatchTaken ==
    (LocateCalled /\ Matching(ExtZip) # {} /\ Matching(ExtSig) # {}) =>
        /\ ret.status = "returned"
        /\ ret.value.zipFile.name = args.files[Lowest(ExtZip)]
        /\ ret.value.sigFile.name = args.files[Lowest(ExtSig)]
        /\ ret.value.zipFile.path =
              args.buildPath \o <<"/">> \o args.files[Lowest(ExtZip)]
        /\ ret.value.sigFile.path =
              args.buildPath \o <<"/">> \o args.files[Lowest(ExtSig)]

\* C24 witness: the archives of 1.0.10 and of 1.0.1 both hold the text 1.0.1,
\* and the one listed first is returned
C24_Witness ==
    /\ LocateCalled
    /\ args.version = V101
    /\ args.files = <<ArtifactZip(V1010), ArtifactSig(V101), ArtifactZip(V101)>>
    /\ ret.status = "returned"
    /\ ret.value.zipFile.name = ArtifactZip(V1010)
    /\ ret.value.sigFile.name = ArtifactSig(V101)

\* C30: with no existing version, getPatchedVersion does not refuse a
\* patch-less fragment of non-negative major and minor as too low; it returns
\* major.minor.0, except for 0.0, for which it returns 0.0.1.
C30_EmptyListDefaults ==
    (PatchCalled /\ args.orderedVersions = <<>>) =>
        \A a \in Nums, b \in Nums :
            args.version = Frag2(a, b) =>
                ret = Returned(Frag3(a, b, IF a = 0 /\ b = 0 THEN 1 ELSE 0))

\* C30 witness: 0.0 with no existing version gives 0.0.1
C30_Witness ==
    /\ PatchCalled
    /\ args.orderedVersions = <<>>
    /\ args.version = Frag2(0, 0)
    /\ ret = Returned(Frag3(0, 0, 1))

----------------------------------------------------------------------------
(* Delete Release: the tag read back *)

\* C29: for every version and build type, the tag createGithubRelease gives
\* is read back by the Delete Release listing as the same build type and the
\* same major, minor and patch, also when a number has two digits.
C29_TagReadBack ==
    NamesCalled =>
        /\ ret.value.a.tagType = args.a.type
        /\ ret.value.a.tagVersion = Returned(args.a.version)

----------------------------------------------------------------------------
(* utils.ts: the version field of the two manifests *)

\* s.startsWith(t)
StartsWith(s, t) == Len(t) <= Len(s) /\ SubSeq(s, 1, Len(t)) = t

WhiteSpace == {" ", "\t", "\r"}

\* s.trim(): the text without the white space at its two ends
RECURSIVE TrimStart(_)
TrimStart(s) ==
    IF s # <<>> /\ Head(s) \in WhiteSpace THEN TrimStart(Tail(s)) ELSE s

RECURSIVE TrimEnd(_)
TrimEnd(s) ==
    IF s # <<>> /\ s[Len(s)] \in WhiteSpace
    THEN TrimEnd(SubSeq(s, 1, Len(s) - 1))
    ELSE s

Trim(s) == TrimEnd(TrimStart(s))

\* lines.join(sep)
RECURSIVE Join(_, _)
Join(lines, sep) ==
    IF lines = <<>> THEN <<>>
    ELSE IF Len(lines) = 1 THEN lines[1]
    ELSE lines[1] \o sep \o Join(Tail(lines), sep)

CargoKey ==
    <<"v", "e", "r", "s", "i", "o", "n", " ", "=", " ">>

PackageKey ==
    <<"\"", "v", "e", "r", "s", "i", "o", "n", "\"">>

\* cargoLine taking every line that holds the word version
cargoLineIncludes(x, version) ==
    IF Includes(x, <<"v", "e", "r", "s", "i", "o", "n">>)
    THEN CargoKey \o <<"\"">> \o version \o <<"\"">>
    ELSE x

\* writeCargoTomlVersion: what a line of Cargo.toml becomes
cargoLine(x, version) ==
    IF StartsWith(x, CargoKey)
    THEN CargoKey \o <<"\"">> \o version \o <<"\"">>
    ELSE x

\* writePackageJsonVersion: what a line of package.json becomes
packageLine(x, version) ==
    IF StartsWith(Trim(x), PackageKey)
    THEN PackageKey \o <<":", " ", "\"">> \o version \o <<"\"", ",">>
    ELSE x

\* the text of Cargo.toml after writeCargoTomlVersion(path, version)
writeCargoTomlVersion(text, version) ==
    LET lines == Split(text, "\n")
    IN Join([i \in 1..Len(lines) |-> cargoLine(lines[i], version)], <<"\n">>)

\* the text of package.json after writePackageJsonVersion(path, version)
writePackageJsonVersion(text, version) ==
    LET lines == Split(text, "\n")
    IN Join([i \in 1..Len(lines) |-> packageLine(lines[i], version)], <<"\n">>)

----------------------------------------------------------------------------
(* The manifest writers applied to bounded inputs *)

\* number of lines of the manifest rewritten
MaxLines == 2

CargoVersionLine ==
    <<"v", "e", "r", "s", "i", "o", "n", " ", "=", " ", "\"", "0", ".",
      "1", ".", "0", "\"">>

CargoIndentedLine ==
    <<" ", "v", "e", "r", "s", "i", "o", "n", " ", "=", " ", "\"", "0",
      ".", "1", ".", "0", "\"">>

CargoNameLine ==
    <<"n", "a", "m", "e", " ", "=", " ", "\"", "h", "u", "g", "i", "n",
      "n", "\"">>

PackageVersionLine ==
    <<" ", " ", "\"", "v", "e", "r", "s", "i", "o", "n", "\"", ":", " ",
      "\"", "0", ".", "1", ".", "0", "\"", ",">>

PackageVersionsLine ==
    <<"\"", "v", "e", "r", "s", "i", "o", "n", "s", "\"", ":", " ", "\"",
      "1", "\"">>

ManifestLines ==
    {CargoVersionLine, CargoIndentedLine, CargoNameLine, PackageVersionLine,
     PackageVersionsLine, <<>>}

ManifestTexts ==
    {Join(ls, <<"\n">>) : ls \in UNION {[1..n -> ManifestLines] : n \in 1..MaxLines}}

Writers == {"writeCargoTomlVersion", "writePackageJsonVersion"}

InitManifest ==
    /\ fn \in Writers
    /\ \E t \in ManifestTexts : \E v \in {V101, V1010} :
          args = [text |-> t, version |-> v, again |-> FALSE]
    /\ ret = Pending
    /\ FlowInit

\* the writer of the call applied to the text
Written(text, version) ==
    IF fn = "writeCargoTomlVersion" THEN writeCargoTomlVersion(text, version)
    ELSE writePackageJsonVersion(text, version)

CallWrite ==
    /\ fn \in Writers
    /\ ret = Pending
    /\ ret' = Returned(Written(args.text, args.version))
    /\ UNCHANGED <<fn, args, flowVars>>

\* the same writer is run again, with the same version, on the file it wrote
WriteAgain ==
    /\ fn \in Writers
    /\ ret.status = "returned"
    /\ ~args.again
    /\ args' = [text |-> ret.value, version |-> args.version, again |-> TRUE]
    /\ ret' = Pending
    /\ UNCHANGED <<fn, flowVars>>

NextManifest == CallWrite \/ WriteAgain

SpecManifest == InitManifest /\ [][NextManifest]_vars

WriteCalled == fn \in Writers /\ ret # Pending

\* the line starts with the key of the writer of the call: version = at its
\* start for Cargo.toml, "version" after the leading white space for
\* package.json
HasKey(x) ==
    IF fn = "writeCargoTomlVersion"
    THEN Len(x) >= 10 /\ SubSeq(x, 1, 10) = CargoKey
    ELSE \E k \in 0..Len(x) :
            /\ \A i \in 1..k : x[i] \in WhiteSpace
            /\ Len(x) >= k + 9
            /\ SubSeq(x, k + 1, k + 9) = PackageKey

\* C25: a manifest writer run a second time with the same version leaves the
\* file as the first run wrote it, and a run changes no line that does not
\* start with the key.
C25_RewriteIdempotent ==
    WriteCalled =>
        /\ args.again => ret.value = args.text
        /\ Len(Split(ret.value, "\n")) = Len(Split(args.text, "\n"))
        /\ \A i \in 1..Len(Split(args.text, "\n")) :
              ~HasKey(Split(args.text, "\n")[i])
                 => Split(ret.value, "\n")[i] = Split(args.text, "\n")[i]

\* C25 witness: package.json with an indented version line and another line,
\* written twice with 1.0.1
C25_Witness ==
    /\ WriteCalled
    /\ fn = "writePackageJsonVersion"
    /\ args.again
    /\ args.version = V101
    /\ ret.value =
          PackageKey \o <<":", " ", "\"">> \o V101 \o <<"\"", ",", "\n">>
              \o CargoIndentedLine
    /\ ret.value = args.text

----------------------------------------------------------------------------
(* Delete Build over the folder names getVersions accepts *)

\* BUILDS_PATH holding folders of the present layout next to folders named by
\* the version alone, as the earlier layout of the tool named them
DeletableFolders ==
    {V100, versionFolder(V100, DEBUG), versionFolder(V100, RELEASE),
     V110, versionFolder(V110, DEBUG)}

InitDeleteBuild ==
    /\ fn = "none"
    /\ args = <<>>
    /\ ret = Pending
    /\ RemoteInit
    /\ \E S \in SUBSET DeletableFolders :
          /\ S # {}
          /\ Cardinality(S) <= MaxEntries
          /\ builds = [d \in S |-> BuiltPair(SubSeq(d, 1, 5))]
    /\ cargoToml = <<"0", ".", "0", ".", "0">>
    /\ packageJson = <<"0", ".", "0", ".", "0">>
    /\ pc = "idle"
    /\ req = NoRequest
    /\ resolved = Pending
    /\ served = 0

NextDeleteBuild == DeleteBuild \/ Exit

SpecDeleteBuild == InitDeleteBuild /\ [][NextDeleteBuild]_vars

DeleteBuildDone == pc = "completed" /\ req.intent = "deleteBuild"

\* C28: when Delete Build has reported success, the folder selected from the
\* listing is gone and every other folder is as the request found it.
C28_SelectedFolderRemoved ==
    DeleteBuildDone =>
        /\ req.selected \notin DOMAIN builds
        /\ \A d \in DOMAIN before.builds \ {req.selected} :
              d \in DOMAIN builds /\ builds[d] = before.builds[d]

----------------------------------------------------------------------------
(* Versions assigned by Build against the releases that exist *)

\* the build request has resolved its version
BuildAssigned ==
    /\ req.intent = "build"
    /\ resolved.status = "returned"

\* C27: a build never resolves to a version of a build type whose release
\* tag exists remotely.
C27_PublishedNotReassigned ==
    BuildAssigned =>
        /\ releaseName(resolved.value, req.type) \notin tags
        /\ \A r \in releases : r.tag # releaseName(resolved.value, req.type)

----------------------------------------------------------------------------
(* The order of the steps of a request *)

BuildSteps ==
    <<"build:resolve", "build:manifests", "build:tauri", "build:mkdir",
      "build:locate", "build:copyZip", "build:copySig", "completed">>

\* the step follows the other in buildVersion
NextBuildStep(p, q) ==
    \E i \in 1..(Len(BuildSteps) - 1) : p = BuildSteps[i] /\ q = BuildSteps[i + 1]

BuildRunning == req.intent = "build" /\ pc \notin {"failed", "completed"}

\* what holds at each step of a build: the manifests are written when the
\* packaging tool is about to start and from then on, no folder is made up to
\* the start of the tool, the folder is new from the location of the artifacts
\* on, the archive is in it when the signature is copied, and both are in it
\* at completion
BuildStepEffects ==
    req.intent = "build" =>
        /\ pc \in {"build:tauri", "build:mkdir", "build:locate", "build:copyZip",
                   "build:copySig", "completed"}
              => cargoToml = resolved.value /\ packageJson = resolved.value
        /\ pc \in {"build:resolve", "build:manifests", "build:tauri"}
              => builds = before.builds
        /\ pc \in {"build:locate", "build:copyZip", "build:copySig", "completed"}
              => /\ newVersionFolder \in DOMAIN builds
                 /\ newVersionFolder \notin DOMAIN before.builds
        /\ pc = "build:locate" => builds[newVersionFolder] = {}
        /\ pc = "build:copySig"
              => builds[newVersionFolder] = {ArtifactZip(resolved.value)}
        /\ pc = "completed" => builds[newVersionFolder] = BuiltPair(resolved.value)

\* C21: a build request passes through its steps in the order resolve,
\* manifests, packaging tool, folder, artifacts, copy of the archive, copy of
\* the signature, completed, leaving that order only by failing; the tool
\* starts with both manifests written, the folder is made after the tool has
\* succeeded, and completion comes with both files in the folder.
C21_BuildStepsInOrder ==
    /\ [][/\ (pc = "idle" /\ req'.intent = "build") => pc' = "build:resolve"
          /\ (BuildRunning /\ pc' # pc) => pc' = "failed" \/ NextBuildStep(pc, pc')]_vars
    /\ []BuildStepEffects

\* C21 witness: the build of 1.0 over 1.0.0 is completed, with 1.0.1 in the
\* manifests and the pair in the new folder
C21_Witness ==
    /\ req.intent = "build"
    /\ pc = "completed"
    /\ resolved = Returned(V101)
    /\ cargoToml = V101
    /\ packageJson = V101
    /\ versionFolder(V101, req.type) \notin DOMAIN before.builds
    /\ builds[versionFolder(V101, req.type)] = BuiltPair(V101)

\* C22: an error is recorded exactly when the request has failed; a failed
\* request does nothing more than end, so no step follows the failing one:
\* nothing is uploaded after a refused release, the gist is not written after
\* a failed upload, and no tag is deleted after a failed deletion of the
\* release.
C22_NoErrorSwallowed ==
    /\ [][pc = "failed" =>
             /\ pc' = "idle"
             /\ UNCHANGED <<builds, cargoToml, packageJson, releases, tags, gist>>]_vars
    /\ [](req.intent # "none" => (req.error # "none" <=> pc = "failed"))
    /\ []((req.intent = "publish" /\ pc = "failed") =>
             /\ req.error = "already_exists" => releases = before.releases
             /\ gist = before.gist)
    /\ []((req.intent = "deleteRelease" /\ pc = "failed") =>
             /\ tags = before.tags
             /\ req.error = "RequestError: deleteRelease"
                   => releases = before.releases)

\* C22 witness: the upload of the archive failed; the release is there
\* without assets and the gist is as the request found it
C22_Witness ==
    /\ req.intent = "publish"
    /\ pc = "failed"
    /\ req.error = "RequestError: uploadReleaseAsset .zip"
    /\ gist = before.gist
    /\ \E r \in releases : r.id = req.release /\ r.assets = {}

\* the release of the publish request holds these assets
ReleaseHolds(assets) ==
    \E r \in releases :
        /\ r.id = req.release
        /\ r.tag = releaseName(req.version, req.type)
        /\ r.assets = assets

\* C23: the gist file is written only in the last step of a publish request,
\* when the release of its version and build type holds the archive and the
\* signature; the signature is uploaded to a release that holds the archive.
C23_GistAfterUploads ==
    /\ [][/\ gist' # gist =>
                /\ req.intent = "publish"
                /\ pc = "publish:gist"
                /\ ReleaseHolds(BuiltPair(req.version))
          /\ (pc = "publish:uploadSig" /\ pc' = "publish:gist") =>
                ReleaseHolds({ArtifactZip(req.version)})]_vars
    /\ [](req.intent = "publish" =>
             /\ pc = "publish:uploadZip" => ReleaseHolds({})
             /\ pc = "completed" =>
                   /\ ReleaseHolds(BuiltPair(req.version))
                   /\ gist = gistContent(req.type, req.version))

\* C23 witness: 1.1.0 of the debug builds is published, its release holds the
\* pair and the gist describes it
C23_Witness ==
    /\ req.intent = "publish"
    /\ pc = "completed"
    /\ req.version = V110
    /\ req.type = DEBUG
    /\ \E r \in releases :
          r.tag = releaseName(V110, DEBUG) /\ r.assets = BuiltPair(V110)
    /\ gist = gistContent(DEBUG, V110)
    /\ gist # before.gist

\* the folder holds the archive and the signature of the version in its name
Complete(d) ==
    BuiltPair(versionToString(stringToVersion(d).value)) \subseteq builds[d]

----------------------------------------------------------------------------
(* The remote state under Build and under Delete Release *)

\* the releases, the tags and the gist file are as the request found them
RemoteAsFound ==
    /\ releases = before.releases
    /\ tags = before.tags
    /\ gist = before.gist

\* C31: at every step of a build request, completed or failed, the releases,
\* the tags and the gist file are as the request found them; a release, a tag
\* or a new gist content appears only under a Create Release request.
C31_BuildLeavesRemote ==
    /\ req.intent = "build" => RemoteAsFound
    /\ req.intent \in {"deleteBuild", "deleteRelease"} =>
          /\ releases \subseteq before.releases
          /\ tags \subseteq before.tags
          /\ gist = before.gist

\* C31 witness: a build of 1.0 is completed next to the published 1.0.0; the
\* folder 1.0.1_release is new and the release, the tag and the gist are as
\* they were
C31_Witness ==
    /\ req.intent = "build"
    /\ pc = "completed"
    /\ versionFolder(V101, RELEASE) \in DOMAIN builds
    /\ versionFolder(V101, RELEASE) \notin DOMAIN before.builds
    /\ releases # {}
    /\ gist # NoGist
    /\ RemoteAsFound

\* the release selected for deletion is among the releases
SelectedReleaseThere == \E r \in releases : r.id = req.release

\* C32: a Delete Release request deletes the release first and the tag
\* second: before the first call nothing is changed, before the second the
\* release is gone and the tags are unchanged; success is reported with the
\* release and the tag gone; when the deletion of the tag fails the release
\* stays deleted and the tag stays.
C32_ReleaseThenTag ==
    req.intent = "deleteRelease" =>
        /\ pc = "deleteRelease:release" => RemoteAsFound /\ SelectedReleaseThere
        /\ pc = "deleteRelease:ref" =>
              /\ ~SelectedReleaseThere
              /\ tags = before.tags
              /\ req.tag \in tags
        /\ pc = "completed" =>
              /\ ~SelectedReleaseThere
              /\ req.tag \notin tags
              /\ \A r \in releases : r.tag # req.tag
        /\ (pc = "failed" /\ req.error = "RequestError: deleteRef") =>
              /\ ~SelectedReleaseThere
              /\ releases = {r \in before.releases : r.id # req.release}
              /\ req.tag \in tags
              /\ tags = before.tags

\* C32 witness: the deletion of the tag v1.0.0 failed; its release is deleted
\* and the tag is still there
C32_Witness ==
    /\ req.intent = "deleteRelease"
    /\ pc = "failed"
    /\ req.error = "RequestError: deleteRef"
    /\ req.tag = releaseName(V100, RELEASE)
    /\ \E r \in before.releases : r.id = req.release /\ r.tag = req.tag
    /\ ~SelectedReleaseThere
    /\ req.tag \in tags

====
